---- MODULE Spec2Model ----
(***************************************************************************)
(* Model of the authenticated Spotify client: SpotifyAuth (src/auth.py)    *)
(* and SpotifyClient (src/client.py).  Time is counted in seconds.         *)
(***************************************************************************)
EXTENDS Integers, Sequences, FiniteSets, TLC

VARIABLES
    now,            \* datetime.now(), seconds since the start of the run
    access_token,   \* SpotifyAuth.access_token ("None" or a token value)
    token_expiry,   \* SpotifyAuth.token_expiry: <<>> is None, <<t>> a datetime
    authEv,         \* record of the most recent get_access_token call
    entry,          \* the SpotifyClient method the caller invoked
    pc,             \* position of the client inside that method
    raised,         \* exception that left the method ("None" while there is none)
    queries,        \* tracks_with_artist
    qi,             \* index of the query the resolution loop is at
    track_results,  \* get_track_id: identifiers the last search returned
    contains_response, \* find_saved_track: the last saved-check response
    track_ids,      \* make_playlist_with_tracks: identifiers resolved so far
    resolutions,    \* what get_track_id returned for each query so far (<<>> is None)
    printed,        \* lines printed so far
    playlist_id,    \* identifier returned by create_playlist
    track_uris,     \* argument of add_playlist_tracks
    subsets,        \* add_playlist_tracks: the batches
    si,             \* add_playlist_tracks: index of the batch to send next
    header_uses,    \* requests already sent with the headers of request_args
    calls,          \* requests dispatched to the music service, in order
    playlist_files, \* convert_files: the items of each playlist file, in order
    fi,             \* convert_files: index of the file the loop is at
    cpc,            \* position of convert_files ("none" when it is not running)
    exit_code,      \* <<>> while the process runs, <<n>> after sys.exit(n)
    stderr          \* lines written to sys.stderr

authVars == <<now, access_token, token_expiry, authEv>>
clientVars == <<entry, pc, raised, queries, qi, track_results, contains_response,
                track_ids, resolutions, printed, playlist_id, track_uris, subsets,
                si, header_uses, calls>>
convertVars == <<playlist_files, fi, cpc, exit_code, stderr>>
vars == <<now, access_token, token_expiry, authEv, entry, pc, raised, queries, qi,
          track_results, contains_response, track_ids, resolutions, printed,
          playlist_id, track_uris, subsets, si, header_uses, calls,
          playlist_files, fi, cpc, exit_code, stderr>>

----------------------------------------------------------------------------
(* Bounds and input sets *)

MaxTime == 600
Delays == {30, 270}
Latencies == {0, 30}
Tokens == {"t1", "t2"}
\* expires_in of the token response: <<>> when the field is absent
Lifetimes == {<<>>, <<60>>, <<300>>, <<360>>}

MaxClientTime == 3600
ClientDelays == {3400}
ClientTokens == {"t1"}
ClientLifetimes == {<<>>}
ClientLatencies == {0}
MaxQueries == 2
MaxHits == 1
MaxCands == 3
MaxTracks == 201
MaxFiles == 2
TrackIdSet == {1, 2}
CandIdSet == {1, 2, 3}
QuerySet == {<<"Song A", "Artist X">>, <<"Song B", "Artist Y">>}
PlaylistIds == {"p1"}

(* Program constants *)
SkewSeconds == 300
DefaultExpiresIn == 3600
BatchLimit == 100

None == "None"

\* What an HTTP exchange can end in: a 2xx response, an error status
\* (raise_for_status raises HTTPError) or a transport failure (RequestException)
Failures == {"HTTPError", "RequestException"}
Statuses == {"ok"} \cup Failures

TokenResponses ==
    [status : {"ok"}, access_token : Tokens, expires_in : Lifetimes, latency : Latencies]
    \cup [status : Failures, access_token : {None}, expires_in : {<<>>}, latency : Latencies]

----------------------------------------------------------------------------
(* SpotifyAuth *)

\* Variant: the expiry check without the 5-minute skew
_is_token_expired_no_skew(expiry, t) ==
    IF expiry = <<>> THEN TRUE
    ELSE t >= expiry[1]

_is_token_expired(expiry, t) ==
    IF expiry = <<>> THEN TRUE
    ELSE t + SkewSeconds >= expiry[1]

expires_in_or_default(token_data) ==
    IF token_data.expires_in = <<>> THEN DefaultExpiresIn ELSE token_data.expires_in[1]

\* Variant: a failed exchange is sent a second time before giving up
_refresh_token_retrying(st, resp) ==
    LET t == st.now + resp.latency IN
    IF resp.status = "ok"
    THEN [now |-> t, access_token |-> resp.access_token,
          token_expiry |-> <<t + expires_in_or_default(resp)>>,
          requests |-> 1, raised |-> None]
    ELSE [now |-> t + resp.latency, access_token |-> st.access_token,
          token_expiry |-> st.token_expiry,
          requests |-> 2, raised |-> resp.status]

\* st is the SpotifyAuth object with the clock; resp is what the token endpoint answers
_refresh_token(st, resp) ==
    LET t == st.now + resp.latency IN
    IF resp.status = "ok"
    THEN [now |-> t, access_token |-> resp.access_token,
          token_expiry |-> <<t + expires_in_or_default(resp)>>,
          requests |-> 1, raised |-> None]
    ELSE [now |-> t, access_token |-> st.access_token,
          token_expiry |-> st.token_expiry,
          requests |-> 1, raised |-> resp.status]

get_access_token(st, resp) ==
    IF _is_token_expired(st.token_expiry, st.now)
    THEN LET r == _refresh_token(st, resp) IN
         [now |-> r.now, access_token |-> r.access_token, token_expiry |-> r.token_expiry,
          requests |-> r.requests, raised |-> r.raised, refreshed |-> r.raised = None,
          returned |-> IF r.raised # None THEN None ELSE r.access_token]
    ELSE [now |-> st.now, access_token |-> st.access_token, token_expiry |-> st.token_expiry,
          requests |-> 0, raised |-> None, refreshed |-> FALSE,
          returned |-> st.access_token]

AuthState == [now |-> now, access_token |-> access_token, token_expiry |-> token_expiry]

\* Seconds left before the recorded expiry, <<>> when no expiry is recorded
Left(expiry, t) == IF expiry = <<>> THEN <<>> ELSE <<expiry[1] - t>>

AuthEvent(st, r, resp) ==
    [op |-> "get_access_token",
     expires_in |-> IF r.refreshed THEN resp.expires_in ELSE <<>>,
     outcome |-> IF r.raised # None THEN "raised" ELSE IF r.refreshed THEN "refreshed" ELSE "cached",
     requests |-> r.requests,
     returned |-> r.returned,
     token_before |-> st.access_token,
     left_before |-> Left(st.token_expiry, st.now),
     token_after |-> r.access_token,
     expiry_before |-> st.token_expiry,
     expiry_after |-> r.token_expiry,
     left_after |-> Left(r.token_expiry, r.now)]

NoAuthEvent ==
    [op |-> "none", expires_in |-> <<>>,
     outcome |-> "none", requests |-> 0, returned |-> None,
     token_before |-> None, left_before |-> <<>>, token_after |-> None,
     expiry_before |-> <<>>, expiry_after |-> <<>>, left_after |-> <<>>]

\* The effect of one get_access_token call on the SpotifyAuth object and the clock
ApplyAuth(r, resp) ==
    /\ now' = r.now
    /\ access_token' = r.access_token
    /\ token_expiry' = r.token_expiry
    /\ authEv' = AuthEvent(AuthState, r, resp)

AuthInit ==
    /\ now = 0
    /\ access_token = None
    /\ token_expiry = <<>>
    /\ authEv = NoAuthEvent

\* A caller invokes auth.get_access_token()
GetAccessTokenCall ==
    \E resp \in TokenResponses :
        /\ now + resp.latency <= MaxTime
        /\ ApplyAuth(get_access_token(AuthState, resp), resp)

\* Time passes between calls
Tick ==
    \E d \in Delays :
        /\ now + d <= MaxTime
        /\ now' = now + d
        /\ UNCHANGED <<access_token, token_expiry, authEv>>

----------------------------------------------------------------------------
(* SpotifyClient *)

SeqsUpTo(S, n) == UNION {[1..k -> S] : k \in 0..n}

ClientTokenResponses ==
    [status : {"ok"}, access_token : ClientTokens, expires_in : ClientLifetimes,
     latency : ClientLatencies]
    \cup [status : Failures, access_token : {None}, expires_in : {<<>>},
          latency : ClientLatencies]

\* Search: JSON whose tracks.items is a ranked list of objects with an id
SearchResponses(ids, n) ==
    [status : {"ok"}, items : SeqsUpTo([id : ids], n)]
    \cup [status : Failures, items : {<<>>}]
\* Saved-check: JSON array of booleans
ContainsResponses(n) ==
    [status : {"ok"}, json : SeqsUpTo(BOOLEAN, n)]
    \cup [status : Failures, json : {<<>>}]
CreateResponses ==
    [status : {"ok"}, id : PlaylistIds] \cup [status : Failures, id : {None}]
AddResponses == [status : Statuses]

Min(a, b) == IF a < b THEN a ELSE b

\* send_request: what it prints and whether it raises
send_request(resp) ==
    IF resp.status = "ok" THEN [raised |-> None, printed |-> <<>>]
    ELSE IF resp.status = "HTTPError"
    THEN [raised |-> "HTTPError",
          printed |-> << <<"HTTP Error", <<>> >>, <<"Response status code", <<>> >>,
                         <<"Response body", <<>> >> >>]
    ELSE [raised |-> "RequestException", printed |-> << <<"Request Error", <<>> >> >>]

\* The record of a dispatched request: fetched tells whether the bearer token
\* of its headers was obtained for this request, stale whether the token
\* manager counts its token as expired at the time of dispatch
Call(kind, resp, q, hits, uris) ==
    [kind |-> kind, ok |-> resp.status = "ok", fetched |-> header_uses' = 1,
     stale |-> _is_token_expired(token_expiry', now'),
     q |-> q, hits |-> hits, uris |-> uris]

zip(a, b) == [i \in 1..Min(Len(a), Len(b)) |-> <<a[i], b[i]>>]

RECURSIVE first_saved(_)
first_saved(tracks_saved) ==
    IF tracks_saved = <<>> THEN <<>>
    ELSE IF Head(tracks_saved)[2] THEN <<Head(tracks_saved)[1]>>
    ELSE first_saved(Tail(tracks_saved))

\* Variant: the top search hit is returned whatever the saved-check said
get_track_id_top_hit(results, saved_track) ==
    IF results = <<>> THEN <<>>
    ELSE <<results[1]>>

\* get_track_id, after both responses are in: <<>> is None
get_track_id(results, saved_track) ==
    IF results = <<>> THEN <<>>
    ELSE IF saved_track = <<>> THEN <<results[1]>>
    ELSE saved_track

\* Variant: only full batches are cut, a shorter remainder is dropped
RECURSIVE subsets_of_size_full_only(_, _)
subsets_of_size_full_only(items, size) ==
    IF Len(items) < size THEN <<>>
    ELSE <<SubSeq(items, 1, size)>>
         \o subsets_of_size_full_only(SubSeq(items, size + 1, Len(items)), size)

RECURSIVE subsets_of_size(_, _)
subsets_of_size(items, size) ==
    IF items = <<>> THEN <<>>
    ELSE <<SubSeq(items, 1, Min(size, Len(items)))>>
         \o subsets_of_size(SubSeq(items, Min(size, Len(items)) + 1, Len(items)), size)

\* Variant: the bare identifier is sent, without the scheme prefix
track_uri_bare(tid) == <<"", tid>>

track_uri(tid) == <<"spotify:track:", tid>>
to_track_uris(ids) == [i \in 1..Len(ids) |-> track_uri(ids[i])]

\* Variant: a resolved identifier is put in front of the list
prepend_track_id(ids, track_id) ==
    IF track_id # <<>> THEN <<track_id[1]>> \o ids ELSE ids

\* make_playlist_with_tracks, the body of the resolution loop after get_track_id
append_track_id(ids, track_id) ==
    IF track_id # <<>> THEN Append(ids, track_id[1]) ELSE ids

could_not_find(pr, track_id, query) ==
    IF track_id # <<>> THEN pr ELSE Append(pr, <<"Could not find track", query>>)

\* Variant: the playlist is created whether or not anything was resolved
after_resolution_always_create(ids) == "create"

\* make_playlist_with_tracks, after the loop: where control goes
after_resolution(ids) == IF ids = <<>> THEN "returned" ELSE "create"

\* make_playlist_with_tracks once the resolution loop has ended with ids
AfterLoop(ids, pr) ==
    /\ pc' = after_resolution(ids)
    /\ printed' = IF ids = <<>>
                  THEN Append(pr, <<"No valid tracks found to add to playlist", <<>> >>)
                  ELSE pr
    /\ track_uris' = IF ids = <<>> THEN track_uris ELSE to_track_uris(ids)

\* make_playlist_with_tracks once get_track_id has returned track_id for query qi
Resolved(track_id, pr) ==
    LET ids == append_track_id(track_ids, track_id) IN
    /\ track_ids' = ids
    /\ resolutions' = Append(resolutions, track_id)
    /\ IF qi < Len(queries)
       THEN /\ qi' = qi + 1
            /\ pc' = "search"
            /\ printed' = could_not_find(pr, track_id, queries[qi])
            /\ track_uris' = track_uris
       ELSE /\ qi' = qi
            /\ AfterLoop(ids, could_not_find(pr, track_id, queries[qi]))

\* Variant: a failed batch is skipped and the loop goes on
after_send_skipping_failures(exc, i, n) ==
    [pc |-> IF i < n THEN "batch" ELSE "returned", raised |-> None, si |-> i + 1]

\* add_playlist_tracks, its loop after send_request for batch i of n: an
\* exception leaves the loop, otherwise the loop goes on to the next batch
after_send(exc, i, n) ==
    IF exc # None THEN [pc |-> "raised", raised |-> exc, si |-> i]
    ELSE [pc |-> IF i < n THEN "batch" ELSE "returned", raised |-> None, si |-> i + 1]

\* An exception leaves the method the caller invoked
Raise(exc) ==
    /\ pc' = "raised"
    /\ raised' = exc

\* The caller invokes make_playlist_with_tracks(playlist_name, queries)
MakePlaylistWithTracks ==
    /\ pc = "call"
    /\ UNCHANGED convertVars
    /\ entry = "make_playlist_with_tracks"
    /\ track_ids' = <<>>
    /\ resolutions' = resolutions
    /\ IF queries # <<>>
       THEN /\ qi' = 1
            /\ pc' = "search"
            /\ UNCHANGED <<printed, track_uris>>
       ELSE /\ qi' = qi
            /\ AfterLoop(<<>>, printed)
    /\ UNCHANGED <<entry, raised, queries, track_results, contains_response,
                   playlist_id, subsets, si, header_uses, calls>>
    /\ UNCHANGED authVars

\* get_track_id -> find_track_ids: the search call for query qi
FindTrackIds(responses) ==
    /\ pc = "search"
    /\ UNCHANGED convertVars
    /\ \E tr \in ClientTokenResponses, resp \in responses :
        LET a == get_access_token(AuthState, tr)
            r == send_request(resp)
            ids == [i \in 1..Len(resp.items) |-> resp.items[i].id]
        IN
        /\ ApplyAuth(a, tr)
        /\ IF a.raised # None
           THEN /\ Raise(a.raised)
                /\ UNCHANGED <<qi, track_results, track_ids, resolutions, printed,
                               track_uris, header_uses, calls>>
           ELSE /\ header_uses' = 1
                /\ calls' = Append(calls, Call("search", resp, queries[qi], Len(ids), <<>>))
                /\ IF r.raised # None
                   THEN /\ Raise(r.raised)
                        /\ printed' = printed \o r.printed
                        /\ UNCHANGED <<qi, track_results, track_ids, resolutions,
                                       track_uris>>
                   ELSE /\ track_results' = ids
                        /\ raised' = raised
                        /\ IF ids = <<>>
                           THEN Resolved(get_track_id(ids, <<>>), printed)
                           ELSE /\ pc' = "contains"
                                /\ UNCHANGED <<qi, track_ids, resolutions, printed,
                                               track_uris>>
    /\ UNCHANGED <<entry, queries, contains_response, playlist_id, subsets, si>>

\* get_track_id -> find_saved_track: the saved-check call for query qi
FindSavedTrack(responses) ==
    /\ pc = "contains"
    /\ UNCHANGED convertVars
    /\ \E tr \in ClientTokenResponses, resp \in responses :
        LET a == get_access_token(AuthState, tr)
            r == send_request(resp)
        IN
        /\ ApplyAuth(a, tr)
        /\ IF a.raised # None
           THEN /\ Raise(a.raised)
                /\ UNCHANGED <<qi, contains_response, track_ids, resolutions, printed,
                               track_uris, header_uses, calls>>
           ELSE /\ header_uses' = 1
                /\ calls' = Append(calls, Call("contains", resp, queries[qi],
                                               Len(track_results), <<>>))
                /\ IF r.raised # None
                   THEN /\ Raise(r.raised)
                        /\ printed' = printed \o r.printed
                        /\ UNCHANGED <<qi, contains_response, track_ids, resolutions,
                                       track_uris>>
                   ELSE /\ contains_response' = resp.json
                        /\ raised' = raised
                        /\ Resolved(get_track_id(track_results,
                                        first_saved(zip(track_results, resp.json))),
                                    printed)
    /\ UNCHANGED <<entry, queries, track_results, playlist_id, subsets, si>>

\* create_playlist
CreatePlaylist ==
    /\ pc = "create"
    /\ UNCHANGED convertVars
    /\ \E tr \in ClientTokenResponses, resp \in CreateResponses :
        LET a == get_access_token(AuthState, tr)
            r == send_request(resp)
        IN
        /\ ApplyAuth(a, tr)
        /\ IF a.raised # None
           THEN /\ Raise(a.raised)
                /\ UNCHANGED <<playlist_id, printed, header_uses, calls>>
           ELSE /\ header_uses' = 1
                /\ calls' = Append(calls, Call("create", resp, <<>>, 0, <<>>))
                /\ printed' = printed \o r.printed
                /\ IF r.raised # None
                   THEN /\ Raise(r.raised)
                        /\ UNCHANGED playlist_id
                   ELSE /\ playlist_id' = resp.id
                        /\ pc' = "add"
                        /\ raised' = raised
    /\ UNCHANGED <<entry, queries, qi, track_results, contains_response, track_ids,
                   resolutions, track_uris, subsets, si>>

\* add_playlist_tracks up to its loop: the headers are built and the batches cut
AddPlaylistTracks ==
    /\ pc = "add"
    /\ UNCHANGED convertVars
    /\ \E tr \in ClientTokenResponses :
        LET a == get_access_token(AuthState, tr)
            cut == subsets_of_size(track_uris, BatchLimit)
        IN
        /\ ApplyAuth(a, tr)
        /\ IF a.raised # None
           THEN /\ Raise(a.raised)
                /\ UNCHANGED <<subsets, si, header_uses>>
           ELSE /\ header_uses' = 0
                /\ subsets' = cut
                /\ si' = 1
                /\ pc' = IF cut = <<>> THEN "returned" ELSE "batch"
                /\ raised' = raised
    /\ UNCHANGED <<entry, queries, qi, track_results, contains_response, track_ids,
                   resolutions, printed, playlist_id, track_uris, calls>>

\* add_playlist_tracks, one turn of its loop: the add-tracks call for batch si
AddBatch ==
    /\ pc = "batch"
    /\ UNCHANGED convertVars
    /\ UNCHANGED authVars
    /\ \E resp \in AddResponses :
        LET r == send_request(resp)
            after == after_send(r.raised, si, Len(subsets))
        IN
        /\ header_uses' = header_uses + 1
        /\ calls' = Append(calls, Call("add_tracks", resp, <<>>, 0, subsets[si]))
        /\ printed' = printed \o r.printed
        /\ pc' = after.pc
        /\ raised' = after.raised
        /\ si' = after.si
    /\ UNCHANGED <<entry, queries, qi, track_results, contains_response, track_ids,
                   resolutions, playlist_id, track_uris, subsets>>

\* Time passes while a request is under way; the client's own computation
\* (building the headers, cutting the batches) takes none
ClientTick ==
    /\ pc \notin {"returned", "raised"}
    /\ UNCHANGED convertVars
    /\ ~(pc = "batch" /\ header_uses = 0)
    /\ \E d \in ClientDelays :
        /\ now + d <= MaxClientTime
        /\ now' = now + d
    /\ UNCHANGED <<access_token, token_expiry, authEv>>
    /\ UNCHANGED clientVars

ClientIdle ==
    /\ raised = None
    /\ qi = 0
    /\ track_results = <<>>
    /\ contains_response = <<>>
    /\ track_ids = <<>>
    /\ resolutions = <<>>
    /\ printed = <<>>
    /\ subsets = <<>>
    /\ si = 0
    /\ header_uses = 0
    /\ calls = <<>>

----------------------------------------------------------------------------
(* convert_files (src/app.py) *)

\* show_error: one line on stderr, then sys.exit(1)
show_error(message) == [stderr |-> <<"Error", message>>, exit_code |-> <<1>>]

\* Variant: the failure is reported and the loop goes on with the next file
after_exception_continuing(exc, i) ==
    [cpc |-> "loop", fi |-> i + 1, exit_code |-> <<>>,
     stderr |-> <<"Error", "Failed due to an HTTP error">>]

\* convert_files, its except clauses for an exception out of file i
after_exception(exc, i) ==
    LET shown == IF exc = "HTTPError"
                 THEN show_error("Failed due to an HTTP error")
                 ELSE show_error("A request exception occurred...")
    IN [cpc |-> "exited", fi |-> i, exit_code |-> shown.exit_code,
        stderr |-> shown.stderr]

\* convert_files, one turn of its loop: make_playlist_with_tracks is called
\* with the items of file fi
ConvertFilesCall ==
    /\ cpc = "loop"
    /\ fi <= Len(playlist_files)
    /\ cpc' = "in_call"
    /\ entry' = "make_playlist_with_tracks"
    /\ pc' = "call"
    /\ raised' = None
    /\ queries' = playlist_files[fi]
    /\ qi' = 0
    /\ track_results' = <<>>
    /\ contains_response' = <<>>
    /\ track_ids' = <<>>
    /\ resolutions' = <<>>
    /\ playlist_id' = None
    /\ track_uris' = <<>>
    /\ subsets' = <<>>
    /\ si' = 0
    /\ header_uses' = 0
    /\ UNCHANGED <<printed, calls, playlist_files, fi, exit_code, stderr>>
    /\ UNCHANGED authVars

\* convert_files: make_playlist_with_tracks has returned, the loop moves on
ConvertFilesReturned ==
    /\ cpc = "in_call"
    /\ pc = "returned"
    /\ cpc' = "loop"
    /\ fi' = fi + 1
    /\ UNCHANGED <<playlist_files, exit_code, stderr>>
    /\ UNCHANGED clientVars
    /\ UNCHANGED authVars

\* convert_files: an HTTPError or RequestException came out of the call
ConvertFilesExcept ==
    /\ cpc = "in_call"
    /\ pc = "raised"
    /\ raised \in Failures
    /\ LET after == after_exception(raised, fi) IN
        /\ cpc' = after.cpc
        /\ fi' = after.fi
        /\ exit_code' = after.exit_code
        /\ stderr' = Append(stderr, after.stderr)
    /\ UNCHANGED playlist_files
    /\ UNCHANGED clientVars
    /\ UNCHANGED authVars

\* convert_files: the loop has gone through every file
ConvertFilesEnd ==
    /\ cpc = "loop"
    /\ fi > Len(playlist_files)
    /\ cpc' = "done"
    /\ UNCHANGED <<playlist_files, fi, exit_code, stderr>>
    /\ UNCHANGED clientVars
    /\ UNCHANGED authVars

\* convert_files is not running
ConvertIdle ==
    /\ playlist_files = <<>>
    /\ fi = 0
    /\ cpc = "none"
    /\ exit_code = <<>>
    /\ stderr = <<>>

----------------------------------------------------------------------------
(* Specifications *)

\* The token manager alone, called at arbitrary times
AuthOnlyInit ==
    /\ AuthInit
    /\ ConvertIdle
    /\ ClientIdle
    /\ entry = "get_access_token"
    /\ pc = "returned"
    /\ queries = <<>>
    /\ playlist_id = None
    /\ track_uris = <<>>

GetAccessToken == GetAccessTokenCall /\ UNCHANGED clientVars /\ UNCHANGED convertVars
TimePasses == Tick /\ UNCHANGED clientVars /\ UNCHANGED convertVars

AuthNext == GetAccessToken \/ TimePasses
SpecAuth == AuthOnlyInit /\ [][AuthNext]_vars

\* One make_playlist_with_tracks call on a freshly constructed client
Init ==
    /\ AuthInit
    /\ ConvertIdle
    /\ ClientIdle
    /\ entry = "make_playlist_with_tracks"
    /\ pc = "call"
    /\ queries \in SeqsUpTo(QuerySet, MaxQueries)
    /\ playlist_id = None
    /\ track_uris = <<>>

Search == FindTrackIds(SearchResponses(TrackIdSet, MaxHits))
SavedCheck == FindSavedTrack(ContainsResponses(MaxHits))

Next ==
    \/ MakePlaylistWithTracks
    \/ Search
    \/ SavedCheck
    \/ CreatePlaylist
    \/ AddPlaylistTracks
    \/ AddBatch
    \/ ClientTick
Spec == Init /\ [][Next]_vars

\* One make_playlist_with_tracks call for a single query, with any ranked
\* candidate list and any saved-status sequence
ResolveInit ==
    /\ AuthInit
    /\ ConvertIdle
    /\ ClientIdle
    /\ entry = "make_playlist_with_tracks"
    /\ pc = "call"
    /\ queries \in [1..1 -> QuerySet]
    /\ playlist_id = None
    /\ track_uris = <<>>

SearchAny == FindTrackIds(SearchResponses(CandIdSet, MaxCands))
SavedCheckAny == FindSavedTrack(ContainsResponses(MaxCands))

ResolveNext ==
    \/ MakePlaylistWithTracks
    \/ SearchAny
    \/ SavedCheckAny
    \/ CreatePlaylist
    \/ AddPlaylistTracks
    \/ AddBatch
    \/ ClientTick
SpecResolve == ResolveInit /\ [][ResolveNext]_vars

\* One add_playlist_tracks call on a fresh client with a list of N track URIs
UriLists ==
    {to_track_uris([i \in 1..n |-> i]) : n \in 0..MaxTracks}
    \cup {to_track_uris([i \in 1..n |-> 1 + (i % 3)]) : n \in 0..MaxTracks}

DirectAddInit ==
    /\ AuthInit
    /\ ConvertIdle
    /\ ClientIdle
    /\ entry = "add_playlist_tracks"
    /\ pc = "add"
    /\ queries = <<>>
    /\ playlist_id \in PlaylistIds
    /\ track_uris \in UriLists

\* Either entry: the batches of a long list, and the whole publish of a short one
BatchInit == DirectAddInit \/ Init
SpecBatch == BatchInit /\ [][Next]_vars
\* One convert_files call on a freshly constructed client
ConvertQuerySet == {<<"Song A", "Artist X">>}
ConvertIdSet == {1}

ConvertInit ==
    /\ AuthInit
    /\ ClientIdle
    /\ entry = "make_playlist_with_tracks"
    /\ pc = "returned"
    /\ queries = <<>>
    /\ playlist_id = None
    /\ track_uris = <<>>
    /\ playlist_files \in SeqsUpTo(SeqsUpTo(ConvertQuerySet, MaxQueries), MaxFiles)
    /\ fi = 1
    /\ cpc = "loop"
    /\ exit_code = <<>>
    /\ stderr = <<>>

\* A search finds one track or none, the saved-check answers for that one
ConvertSearch == FindTrackIds(SearchResponses(ConvertIdSet, 1))
ConvertSavedCheck == FindSavedTrack(ContainsResponses(1))

ConvertNext ==
    \/ ConvertFilesCall
    \/ ConvertFilesReturned
    \/ ConvertFilesExcept
    \/ ConvertFilesEnd
    \/ MakePlaylistWithTracks
    \/ ConvertSearch
    \/ ConvertSavedCheck
    \/ CreatePlaylist
    \/ AddPlaylistTracks
    \/ AddBatch
    \/ ClientTick
SpecConvert == ConvertInit /\ [][ConvertNext]_vars

----------------------------------------------------------------------------
(* Properties *)

Last(seq) == seq[Len(seq)]
Returned(ev) == ev.op = "get_access_token" /\ ev.outcome \in {"cached", "refreshed"}
Granted(ev) == IF ev.expires_in = <<>> THEN 3600 ELSE ev.expires_in[1]

RECURSIVE Concat(_)
Concat(seqs) == IF seqs = <<>> THEN <<>> ELSE Head(seqs) \o Concat(Tail(seqs))

CallsOfKind(k) == SelectSeq(calls, LAMBDA c : c.kind = k)
SubmittedUris == Concat([i \in 1..Len(CallsOfKind("add_tracks")) |->
                            CallsOfKind("add_tracks")[i].uris])

C2_RefreshIffUnderFiveMinutes ==
    authEv.op = "get_access_token" =>
        LET stale == authEv.left_before = <<>> \/ authEv.left_before[1] < 5 * 60 IN
        /\ (authEv.requests > 0) <=> stale
        /\ ~stale => /\ authEv.returned = authEv.token_before
                     /\ authEv.token_after = authEv.token_before
                     /\ authEv.expiry_after = authEv.expiry_before

\* C3 as stated: every request dispatched to the music service carries a
\* bearer token that get_access_token returned for that very request, so
\* none is sent with a token the token manager counts as expired
C3_EveryCallFetchesToken ==
    \A i \in DOMAIN calls : calls[i].fetched /\ ~calls[i].stale

\* C4: when add_playlist_tracks has returned, the add-tracks calls are
\* ceil(N/100) in number, each carries 1..100 URIs, and their payloads
\* concatenated in call order are the list that was passed in
C4_BatchesPartitionTheList ==
    (pc = "returned" /\ raised = None) =>
        LET adds == CallsOfKind("add_tracks") IN
        /\ Len(adds) = (Len(track_uris) + 99) \div 100
        /\ \A i \in DOMAIN adds : Len(adds[i].uris) >= 1 /\ Len(adds[i].uris) <= 100
        /\ SubmittedUris = track_uris

\* C4 witness: a list of 201 URIs went out in three batches
C4_Witness ==
    /\ pc = "returned"
    /\ entry = "add_playlist_tracks"
    /\ Len(track_uris) = 201
    /\ Len(calls) = 3
    /\ Len(calls[3].uris) = 1

\* The candidate the resolution rule names: the first one flagged saved,
\* the top-ranked one when none is flagged
Preferred(cands, flags) ==
    LET saved == {i \in DOMAIN cands : i \in DOMAIN flags /\ flags[i]} IN
    IF saved = {} THEN cands[1]
    ELSE cands[CHOOSE i \in saved : \A j \in saved : i <= j]

\* C5: after a successful saved-check, get_track_id has returned the first
\* candidate whose saved flag is true, or the first candidate when none is
C5_PreferSavedElseFirst ==
    (calls # <<>> /\ Last(calls).kind = "contains" /\ Last(calls).ok) =>
        /\ track_results # <<>>
        /\ Last(resolutions) = <<Preferred(track_results, contains_response)>>

\* C5 witness: candidates [1, 2, 3] with flags [false, true, false] gave 2
C5_Witness ==
    /\ calls # <<>> /\ Last(calls).kind = "contains" /\ Last(calls).ok
    /\ track_results = <<1, 2, 3>>
    /\ contains_response = <<FALSE, TRUE, FALSE>>
    /\ resolutions = << <<2>> >>

Unresolved == {i \in DOMAIN resolutions : resolutions[i] = <<>>}
ResolvedIndexes == SelectSeq([i \in 1..Len(resolutions) |-> i],
                             LAMBDA i : resolutions[i] # <<>>)
ResolvedUris == [k \in 1..Len(ResolvedIndexes) |->
                    <<"spotify:track:", resolutions[ResolvedIndexes[k]][1]>>]
CouldNotFind == SelectSeq(printed, LAMBDA ln : ln[1] = "Could not find track")
Searches == CallsOfKind("search")

\* C6: when make_playlist_with_tracks returns and no HTTP call failed, every
\* query was searched once in input order, each query without search results
\* got one diagnostic and no identifier, and the URIs submitted are the
\* identifiers of the resolved queries in input order
C6_UnresolvedSkippedOthersKept ==
    (entry = "make_playlist_with_tracks" /\ pc = "returned" /\ raised = None) =>
        /\ Len(Searches) = Len(queries)
        /\ \A i \in DOMAIN queries : Searches[i].q = queries[i]
        /\ Len(resolutions) = Len(queries)
        /\ \A i \in DOMAIN queries : (Searches[i].hits = 0) <=> (resolutions[i] = <<>>)
        /\ Len(CouldNotFind) = Cardinality(Unresolved)
        /\ \A i \in Unresolved :
              \E k \in DOMAIN CouldNotFind : CouldNotFind[k][2] = queries[i]
        /\ SubmittedUris = ResolvedUris

\* C6 witness: the first query had no search result, the second was resolved
\* and submitted
C6_Witness ==
    /\ entry = "make_playlist_with_tracks" /\ pc = "returned" /\ raised = None
    /\ Len(queries) = 2
    /\ resolutions = << <<>>, <<2>> >>
    /\ SubmittedUris = << <<"spotify:track:", 2>> >>

\* C7: a playlist-creation call is issued only when an identifier was
\* resolved; when every query is unresolved (or there is none) the method
\* returns normally without a creation call and without an add-tracks call
C7_NoPlaylistForEmptyResolution ==
    /\ (CallsOfKind("create") # <<>> \/ CallsOfKind("add_tracks") # <<>>)
          => (entry = "make_playlist_with_tracks" => track_ids # <<>>)
    /\ (/\ entry = "make_playlist_with_tracks"
        /\ pc # "call"
        /\ Len(resolutions) = Len(queries)
        /\ Unresolved = DOMAIN queries)
          => /\ pc = "returned"
             /\ raised = None
             /\ CallsOfKind("create") = <<>>
             /\ CallsOfKind("add_tracks") = <<>>

\* C7 witness: two queries, both unresolved, the method has returned
C7_Witness ==
    /\ entry = "make_playlist_with_tracks"
    /\ pc = "returned"
    /\ Len(queries) = 2
    /\ resolutions = << <<>>, <<>> >>
    /\ Len(calls) = 2

\* C8: a failed add-tracks call is the last request of the run: it is not
\* sent again, no later batch follows it, the exception leaves the method,
\* and the requests before it are the earlier batches, untouched
C8_FailedBatchEndsThePublish ==
    /\ \A i \in DOMAIN calls : ~calls[i].ok => i = Len(calls)
    /\ (calls # <<>> /\ Last(calls).kind = "add_tracks" /\ ~Last(calls).ok) =>
          LET adds == CallsOfKind("add_tracks") IN
          /\ pc = "raised"
          /\ raised \in Failures
          /\ \A i \in DOMAIN adds : adds[i].uris = subsets[i]
          /\ \A i \in DOMAIN adds : i < Len(adds) => adds[i].ok
          /\ \A i \in DOMAIN calls :
                calls[i].kind \in {"search", "contains", "create", "add_tracks"}

\* C8 witness: the second of three batches failed after the first was applied
C8_Witness ==
    /\ pc = "raised"
    /\ Len(subsets) = 3
    /\ Len(calls) = 2
    /\ calls[1].ok
    /\ ~calls[2].ok

RECURSIVE ExpectedResolutionKinds(_)
ExpectedResolutionKinds(searches) ==
    IF searches = <<>> THEN <<>>
    ELSE (IF Head(searches).hits > 0 THEN <<"search", "contains">> ELSE <<"search">>)
         \o ExpectedResolutionKinds(Tail(searches))

\* C9: a make_playlist_with_tracks call that returns with at least one
\* resolved query has issued, in this order and nothing else: per query one
\* search, followed by a saved-check exactly when the search had results;
\* one playlist creation; the add-tracks calls carrying the resolved URIs.
\* Nothing is printed when every query was resolved
C9_SuccessfulTrace ==
    (/\ entry = "make_playlist_with_tracks"
     /\ pc = "returned" /\ raised = None /\ track_ids # <<>>) =>
        /\ [i \in 1..Len(calls) |-> calls[i].kind]
              = ExpectedResolutionKinds(Searches) \o <<"create">>
                \o [i \in 1..((Len(track_ids) + 99) \div 100) |-> "add_tracks"]
        /\ \A i \in DOMAIN queries : Searches[i].q = queries[i]
        /\ Len(Searches) = Len(queries)
        /\ SubmittedUris = ResolvedUris
        /\ Unresolved = {} => printed = <<>>

\* C9 witness: two queries resolved to 1 and 2
C9_Witness ==
    /\ entry = "make_playlist_with_tracks"
    /\ pc = "returned"
    /\ queries = << <<"Song A", "Artist X">>, <<"Song B", "Artist Y">> >>
    /\ resolutions = << <<1>>, <<2>> >>
    /\ [i \in 1..Len(calls) |-> calls[i].kind]
          = <<"search", "contains", "search", "contains", "create", "add_tracks">>
    /\ calls[6].uris = << <<"spotify:track:", 1>>, <<"spotify:track:", 2>> >>
    /\ printed = <<>>

\* C10: a get_access_token call sends at most one request to the token
\* endpoint; when the refresh fails it sends exactly one, returns no token,
\* leaves the cached token as it was, raises out of the calling method, and
\* the request that needed the token is not dispatched
C10_FailedRefreshRaisesOnce ==
    [][/\ authEv'.requests <= 1
       /\ authEv'.outcome = "raised" =>
             /\ authEv'.requests = 1
             /\ authEv'.returned = None
             /\ access_token' = access_token
             /\ token_expiry' = token_expiry
             /\ calls' = calls
             /\ pc' = "raised"
             /\ raised' \in Failures]_vars

\* C10 witness: the refresh failed for a later request of the run
C10_Witness ==
    /\ authEv.outcome = "raised"
    /\ pc = "raised"
    /\ Len(calls) >= 2

FailedResolutionCall(c) == ~c.ok /\ c.kind \in {"search", "contains"}

\* C11: a failed search or saved-check call is the last request of the whole
\* run: the exception leaves make_playlist_with_tracks, convert_files handles
\* it with show_error and the process exits with code 1 after one message;
\* no playlist is created for the failing file, no later file is started,
\* and convert_files ends normally only when no call failed
C11_ResolutionFailureEndsTheRun ==
    /\ \A i \in DOMAIN calls : FailedResolutionCall(calls[i]) => i = Len(calls)
    /\ (calls # <<>> /\ FailedResolutionCall(Last(calls))) =>
          /\ pc = "raised"
          /\ raised \in Failures
          /\ cpc \in {"in_call", "exited"}
          /\ fi <= Len(playlist_files)
          /\ Len(CallsOfKind("create")) <= fi - 1
          /\ cpc = "exited" => (exit_code = <<1>> /\ Len(stderr) = 1)
          /\ cpc = "in_call" => exit_code = <<>>
    /\ cpc = "done" => /\ exit_code = <<>>
                       /\ stderr = <<>>
                       /\ \A i \in DOMAIN calls : calls[i].ok

\* C11 witness: the first search of the first of two files failed, with a
\* second query and a second file still to come, and the process has exited
C11_Witness ==
    /\ cpc = "exited"
    /\ exit_code = <<1>>
    /\ Len(playlist_files) = 2
    /\ Len(playlist_files[1]) = 2
    /\ Len(playlist_files[2]) >= 1
    /\ fi = 1
    /\ Len(calls) = 1
    /\ FailedResolutionCall(calls[1])

====
